---- MODULE Spec2Model ----
(***************************************************************************)
(* The Builder / Director classes and the TheWelcome component of          *)
(* src/src/components/TheWelcome.vue, as a state machine over a heap of    *)
(* objects.                                                                *)
(*                                                                         *)
(* Objects are identified by their allocation index.  A Product1 object    *)
(* and its `parts` array are allocated together and never separated (the   *)
(* field is only assigned by its initializer), so one index stands for     *)
(* both: heap[p] is the content of the parts array of Product1 number p.   *)
(*                                                                         *)
(* Two specifications share the variables:                                 *)
(*   Spec    a client that drives one Director and its builders directly,  *)
(*           as clientCode does, in any order;                             *)
(*   SpecUI  the component: the mount callback and the two triggers.       *)
(***************************************************************************)
EXTENDS Integers, Sequences, FiniteSets

VARIABLES
    heap,      \* Product1 objects: heap[p] = parts of Product1 number p
    product,   \* ConcreteBuilder1 objects: product[b] = builder b's this.product
    director,  \* the module-level `director`: "null" or "Director"
    builder,   \* the Director's this.builder: 0 = undefined, else a builder
    fields,    \* the component's fields.value: 0 = the initial [] array, else the parts array of Product1 number fields
    result,    \* the Product1 last returned by getProduct (0 = none yet)
    returned,  \* every Product1 a getProduct call has handed to its caller
    thrown,    \* how the last call ended: "none" or "TypeError"
    log,       \* log[b] = the step calls made on builder b since its last reset
    call,      \* the last call made: [op, b, before], before = the length of b's product when it was made
    prev,      \* the call made before the last one
    calls      \* the number of calls made so far

vars == <<heap, product, director, builder, fields, result, returned, thrown, log, call, prev, calls>>

----------------------------------------------------------------------------
(* Bounds of the model *)

\* the number of calls a behaviour makes
MaxCalls == 6

----------------------------------------------------------------------------
(* The fixed descriptors pushed by ConcreteBuilder1 *)

TextField(f) == [field |-> f, value |-> "", type |-> "text"]

NameField == TextField("name")

PriceField == TextField("price")

StockField == TextField("stock")

DetailsChildren == <<TextField("size"), TextField("color"), TextField("stock")>>

DetailsField == [field |-> "details", children |-> DetailsChildren, type |-> "children"]

MoreDetailsField ==
    [field |-> "details",
     children |-> << [field |-> "more details", children |-> DetailsChildren, type |-> "children"] >>,
     type |-> "children"]

----------------------------------------------------------------------------
(* The object store an operation works on, and the operations as functions *)
(* from store to store.  ret is the value the operation returned, thrown   *)
(* the exception it ended with.                                            *)

Store ==
    [heap |-> heap, product |-> product, builder |-> builder,
     log |-> log, ret |-> 0, thrown |-> "none"]

\* new Product1(): a fresh object whose parts is a fresh empty array
NewProduct1(S) == [S EXCEPT !.heap = Append(@, <<>>), !.ret = Len(S.heap) + 1]

\* a reset that, once the builder has a product, empties its parts array in
\* place (parts.length = 0) instead of allocating a new Product1
resetInPlace(S, b) ==
    IF S.product[b] = 0
    THEN LET S1 == NewProduct1(S)
         IN  [S1 EXCEPT !.product[b] = S1.ret, !.log[b] = <<>>, !.ret = 0]
    ELSE [S EXCEPT !.heap[S.product[b]] = <<>>, !.log[b] = <<>>, !.ret = 0]

reset(S, b) ==
    LET S1 == NewProduct1(S)
    IN  [S1 EXCEPT !.product[b] = S1.ret, !.log[b] = <<>>, !.ret = 0]

\* new ConcreteBuilder1(): the constructor calls reset(); ret is the new builder
NewConcreteBuilder1(S) ==
    LET b  == Len(S.product) + 1
        S1 == [S EXCEPT !.product = Append(@, 0), !.log = Append(@, <<>>)]
    IN  [reset(S1, b) EXCEPT !.ret = b]

\* this.product.parts.push(d), made by the step named step
push(S, b, step, d) ==
    [S EXCEPT !.heap[S.product[b]] = Append(@, d), !.log[b] = Append(@, step), !.ret = 0]

produceName(S, b) == push(S, b, "produceName", NameField)

producePrice(S, b) == push(S, b, "producePrice", PriceField)

\* a produceStock that puts its descriptor in front (unshift for push)
produceStockFront(S, b) ==
    [S EXCEPT !.heap[S.product[b]] = <<StockField>> \o @,
              !.log[b] = Append(@, "produceStock"), !.ret = 0]

produceStock(S, b) == push(S, b, "produceStock", StockField)

\* a produceChildren that pushes the first details group only
produceChildrenOnce(S, b) == push(S, b, "produceChildren", DetailsField)

produceChildren(S, b) ==
    LET S1 == [S EXCEPT !.heap[S.product[b]] = Append(@, DetailsField)]
    IN  push(S1, b, "produceChildren", MoreDetailsField)

\* a getProduct that forgets this.reset(): it peeks
getProductPeek(S, b) == [S EXCEPT !.ret = S.product[b], !.log[b] = <<>>]

getProduct(S, b) ==
    LET res == S.product[b]
    IN  [reset(S, b) EXCEPT !.ret = res]

\* Product1.listParts(): the parts array itself, not a copy
listParts(S, p) == S.heap[p]

\* a setBuilder that also hands the new builder the previous builder's product
setBuilderSharing(S, b) ==
    IF S.builder = 0 THEN [S EXCEPT !.builder = b, !.ret = 0]
    ELSE [S EXCEPT !.builder = b, !.product[b] = S.product[S.builder], !.ret = 0]

setBuilder(S, b) == [S EXCEPT !.builder = b, !.ret = 0]

\* new Director(): its builder field is not assigned, so it reads undefined
NewDirector(S) == [S EXCEPT !.builder = 0, !.ret = 0]

\* this.builder.<step>() on an undefined this.builder throws a TypeError
\* before anything is done
TypeError(S) == [S EXCEPT !.thrown = "TypeError", !.ret = 0]

\* a recipe that returns quietly when no builder is set
buildMinimalQuiet(S) ==
    IF S.builder = 0 THEN S ELSE produceName(S, S.builder)

\* a recipe that produces the price instead of the name
buildMinimalPrice(S) ==
    IF S.builder = 0 THEN TypeError(S) ELSE producePrice(S, S.builder)

buildMinimalViableProduct(S) ==
    IF S.builder = 0 THEN TypeError(S) ELSE produceName(S, S.builder)

\* a recipe that leaves out produceStock
buildFullNoStock(S) ==
    IF S.builder = 0 THEN TypeError(S)
    ELSE produceChildren(producePrice(produceName(S, S.builder), S.builder), S.builder)

buildFullFeaturedProduct(S) ==
    IF S.builder = 0 THEN TypeError(S)
    ELSE LET b  == S.builder
             S1 == produceName(S, b)
             S2 == producePrice(S1, b)
             S3 == produceStock(S2, b)
         IN  produceChildren(S3, b)

\* constructorBasic(director), director being d; director.setBuilder on a null
\* director throws a TypeError, after the builder was constructed.  ret is the Product1 whose parts it returns
constructorBasic(S, d) ==
    LET S1 == NewConcreteBuilder1(S)
        b  == S1.ret
    IN  IF d = "null" THEN TypeError(S1)
        ELSE LET S2 == buildMinimalViableProduct(setBuilder(S1, b))
             IN  IF S2.thrown # "none" THEN S2 ELSE getProduct(S2, b)

\* a constructorFull that keeps using the builder the Director already has and
\* reads its product without clearing it
constructorFullReuse(S, d) ==
    IF d = "null" THEN TypeError(NewConcreteBuilder1(S))
    ELSE LET S1 == IF S.builder # 0 THEN S
                   ELSE LET N == NewConcreteBuilder1(S) IN setBuilder(N, N.ret)
             S2 == buildFullFeaturedProduct(S1)
         IN  [S2 EXCEPT !.ret = S2.product[S2.builder]]

constructorFull(S, d) ==
    LET S1 == NewConcreteBuilder1(S)
        b  == S1.ret
    IN  IF d = "null" THEN TypeError(S1)
        ELSE LET S2 == buildFullFeaturedProduct(setBuilder(S1, b))
             IN  IF S2.thrown # "none" THEN S2 ELSE getProduct(S2, b)

----------------------------------------------------------------------------
(* Actions *)

Builders == 1..Len(product)

PartsOf(b) == heap[product[b]]

NoCall == [op |-> "none", b |-> 0, before |-> 0]

\* the store after a call, written back to the variables
Commit(S, op, b) ==
    /\ heap' = S.heap
    /\ product' = S.product
    /\ builder' = S.builder
    /\ log' = S.log
    /\ thrown' = S.thrown
    /\ calls < MaxCalls
    /\ calls' = calls + 1
    /\ call' = [op |-> op, b |-> b, before |-> IF b \in Builders THEN Len(PartsOf(b)) ELSE 0]
    /\ prev' = call

Init ==
    /\ heap = <<>>
    /\ product = <<>>
    /\ director = "Director"
    /\ builder = 0
    /\ fields = 0
    /\ result = 0
    /\ returned = {}
    /\ thrown = "none"
    /\ log = <<>>
    /\ call = NoCall
    /\ prev = NoCall
    /\ calls = 0

NewBuilder ==
    /\ Commit(NewConcreteBuilder1(Store), "new", Len(product) + 1)
    /\ UNCHANGED <<director, fields, result, returned>>

Reset(b) ==
    /\ Commit(reset(Store, b), "reset", b)
    /\ UNCHANGED <<director, fields, result, returned>>

ProduceName(b) ==
    /\ Commit(produceName(Store, b), "produceName", b)
    /\ UNCHANGED <<director, fields, result, returned>>

ProducePrice(b) ==
    /\ Commit(producePrice(Store, b), "producePrice", b)
    /\ UNCHANGED <<director, fields, result, returned>>

ProduceStock(b) ==
    /\ Commit(produceStock(Store, b), "produceStock", b)
    /\ UNCHANGED <<director, fields, result, returned>>

ProduceChildren(b) ==
    /\ Commit(produceChildren(Store, b), "produceChildren", b)
    /\ UNCHANGED <<director, fields, result, returned>>

GetProduct(b) ==
    /\ LET S == getProduct(Store, b)
       IN  /\ Commit(S, "getProduct", b)
           /\ result' = S.ret
           /\ returned' = returned \cup {S.ret}
    /\ UNCHANGED <<director, fields>>

SetBuilder(b) ==
    /\ Commit(setBuilder(Store, b), "setBuilder", b)
    /\ UNCHANGED <<director, fields, result, returned>>

BuildMinimalViableProduct ==
    /\ Commit(buildMinimalViableProduct(Store), "buildMinimalViableProduct", builder)
    /\ UNCHANGED <<director, fields, result, returned>>

BuildFullFeaturedProduct ==
    /\ Commit(buildFullFeaturedProduct(Store), "buildFullFeaturedProduct", builder)
    /\ UNCHANGED <<director, fields, result, returned>>

Next ==
    \/ NewBuilder
    \/ \E b \in Builders : Reset(b)
    \/ \E b \in Builders : ProduceName(b)
    \/ \E b \in Builders : ProducePrice(b)
    \/ \E b \in Builders : ProduceStock(b)
    \/ \E b \in Builders : ProduceChildren(b)
    \/ \E b \in Builders : GetProduct(b)
    \/ \E b \in Builders : SetBuilder(b)
    \/ BuildMinimalViableProduct
    \/ BuildFullFeaturedProduct

Spec == Init /\ [][Next]_vars


----------------------------------------------------------------------------
(* The component *)

\* the array fields.value refers to
FieldsValue == IF fields = 0 THEN <<>> ELSE listParts(Store, fields)

InitUI ==
    /\ heap = <<>>
    /\ product = <<>>
    /\ director = "null"
    /\ builder = 0
    /\ fields = 0
    /\ result = 0
    /\ returned = {}
    /\ thrown = "none"
    /\ log = <<>>
    /\ call = NoCall
    /\ prev = NoCall
    /\ calls = 0

\* onMounted(() => { director = new Director() }), run once
Mount ==
    /\ director = "null"
    /\ director' = "Director"
    /\ Commit(NewDirector(Store), "onMounted", 0)
    /\ UNCHANGED <<fields, result, returned>>

\* fields.value = <what the constructor returned>; nothing is assigned when
\* the constructor threw
Show(S, op) ==
    /\ Commit(S, op, 0)
    /\ IF S.thrown = "none"
       THEN /\ fields' = S.ret
            /\ result' = S.ret
            /\ returned' = returned \cup {S.ret}
       ELSE UNCHANGED <<fields, result, returned>>
    /\ UNCHANGED director

\* if(director === null) return;
Skip(op) ==
    /\ Commit(Store, op, 0)
    /\ UNCHANGED <<director, fields, result, returned>>

\* a showBasicForm without the null guard
ShowBasicFormUnguarded == Show(constructorBasic(Store, director), "showBasicForm")

ShowBasicForm ==
    IF director = "null" THEN Skip("showBasicForm")
    ELSE Show(constructorBasic(Store, director), "showBasicForm")

ShowFullForm ==
    IF director = "null" THEN Skip("showFullForm")
    ELSE Show(constructorFull(Store, director), "showFullForm")

NextUI ==
    \/ Mount
    \/ ShowBasicForm
    \/ ShowFullForm

SpecUI == InitUI /\ [][NextUI]_vars

----------------------------------------------------------------------------
(* What the claims speak of *)

Steps == {"produceName", "producePrice", "produceStock", "produceChildren"}

Recipes == {"buildMinimalViableProduct", "buildFullFeaturedProduct"}

Triggers == {"showBasicForm", "showFullForm"}

FieldNames(parts) == [i \in 1..Len(parts) |-> parts[i].field]

\* the descriptors one call of a step appends
StepParts(step) ==
    CASE step = "produceName" -> << [field |-> "name", value |-> "", type |-> "text"] >>
      [] step = "producePrice" -> << [field |-> "price", value |-> "", type |-> "text"] >>
      [] step = "produceStock" -> << [field |-> "stock", value |-> "", type |-> "text"] >>
      [] step = "produceChildren" -> <<DetailsField, MoreDetailsField>>

\* the steps a recipe calls
RecipeSteps(recipe) ==
    IF recipe = "buildMinimalViableProduct" THEN <<"produceName">>
    ELSE <<"produceName", "producePrice", "produceStock", "produceChildren">>

RECURSIVE Appended(_)
\* the descriptors a sequence of step calls appends, in call order
Appended(steps) ==
    IF steps = <<>> THEN <<>>
    ELSE StepParts(Head(steps)) \o Appended(Tail(steps))

\* the last two calls were recipe on a blank current builder, then that
\* builder's getProduct
BuiltThenGot(recipe) ==
    /\ prev.op = recipe
    /\ prev.b # 0
    /\ prev.before = 0
    /\ call.op = "getProduct"
    /\ call.b = prev.b

----------------------------------------------------------------------------
(* C1 *)

\* C1, as stated: buildFullFeaturedProduct on a blank current builder, then
\* getProduct, yields exactly 4 top-level descriptors: name, price, stock,
\* details.
C1_AsStated ==
    BuiltThenGot("buildFullFeaturedProduct") =>
        FieldNames(heap[result]) = <<"name", "price", "stock", "details">>

\* C1, amended: buildFullFeaturedProduct on a blank current builder, then
\* getProduct, yields exactly 5 top-level descriptors: name, price, stock and
\* the two details groups of produceChildren.
C1_FullProduct ==
    BuiltThenGot("buildFullFeaturedProduct") =>
        /\ Len(heap[result]) = 5
        /\ FieldNames(heap[result]) = <<"name", "price", "stock", "details", "details">>
        /\ heap[result][4] # heap[result][5]

C1_Witness ==
    /\ BuiltThenGot("buildFullFeaturedProduct")
    /\ Len(heap[result]) = 5

----------------------------------------------------------------------------
(* C2 *)

\* C2: getProduct returns exactly the descriptors appended by the step calls
\* made on the builder since its creation, last reset or last getProduct, in
\* call order.
C2_ExactSequence ==
    [][call'.op = "getProduct" => heap'[result'] = Appended(log[call'.b])]_vars

\* a second product of a builder, made of different steps in an order that
\* is not the recipes' order, after a first non-empty one
C2_Witness ==
    /\ call.op = "getProduct"
    /\ heap[result] = <<StockField, NameField>>
    /\ \E p \in returned : p # result /\ heap[p] # <<>>

----------------------------------------------------------------------------
(* C3 *)

\* C3: a getProduct with no step call since the builder's creation, reset or
\* previous getProduct returns an empty sequence.
C3_ReadThenClear ==
    [][(call'.op = "getProduct" /\ log[call'.b] = <<>>) => heap'[result'] = <<>>]_vars

\* two getProduct calls in a row on one builder: the first returned a
\* non-empty product, the second an empty one
C3_Witness ==
    /\ call.op = "getProduct"
    /\ prev.op = "getProduct"
    /\ prev.b = call.b
    /\ heap[result] = <<>>
    /\ \E p \in returned : heap[p] # <<>>

----------------------------------------------------------------------------
(* C4 *)

\* C4: buildMinimalViableProduct on a blank current builder, then getProduct,
\* yields exactly the name descriptor.
C4_MinimalProduct ==
    BuiltThenGot("buildMinimalViableProduct") =>
        heap[result] = << [field |-> "name", value |-> "", type |-> "text"] >>

C4_Witness ==
    /\ BuiltThenGot("buildMinimalViableProduct")
    /\ Len(heap[result]) = 1

----------------------------------------------------------------------------
(* C5 *)

\* C5: no call changes the sequence held by a product that getProduct has
\* already returned.
C5_Detached ==
    [][\A p \in returned : heap'[p] = heap[p]]_vars

\* a recipe ran on the builder right after it handed out a non-empty product
C5_Witness ==
    /\ call.op = "buildFullFeaturedProduct"
    /\ thrown = "none"
    /\ prev.op = "getProduct"
    /\ prev.b = call.b
    /\ heap[result] # <<>>
    /\ PartsOf(call.b) # <<>>

----------------------------------------------------------------------------
(* C6 *)

\* C6: a step call appends its fixed descriptors (one, or two for
\* produceChildren) to the end of the builder's current product and changes
\* nothing else.
C6_OnlyAppends ==
    [][call'.op \in Steps =>
        /\ product' = product
        /\ Len(heap') = Len(heap)
        /\ Len(heap'[product'[call'.b]]) = Len(PartsOf(call'.b))
                + (IF call'.op = "produceChildren" THEN 2 ELSE 1)
        /\ heap'[product'[call'.b]] = PartsOf(call'.b) \o StepParts(call'.op)
        /\ \A p \in 1..Len(heap) : p # product[call'.b] => heap'[p] = heap[p]]_vars

\* produceChildren was called on a builder that already held descriptors
C6_Witness ==
    /\ call.op = "produceChildren"
    /\ call.before > 0
    /\ Len(PartsOf(call.b)) = call.before + 2

----------------------------------------------------------------------------
(* C7 *)

NoSharedProduct ==
    \A b1, b2 \in Builders : b1 # b2 => product[b1] # product[b2]

\* C7: setBuilder(b) only replaces the Director's reference; a recipe then
\* appends its steps' descriptors to b alone; two builders never share a
\* product.
C7_SetBuilderFrame ==
    /\ []NoSharedProduct
    /\ [][/\ call'.op = "setBuilder" =>
                /\ builder' = call'.b
                /\ heap' = heap
                /\ product' = product
          /\ (call'.op \in Recipes /\ builder # 0) =>
                /\ builder' = builder
                /\ product' = product
                /\ Len(heap') = Len(heap)
                /\ PartsOf(builder)' = PartsOf(builder) \o Appended(RecipeSteps(call'.op))
                /\ \A p \in 1..Len(heap) : p # product[builder] => heap'[p] = heap[p]]_vars

\* a recipe ran right after setBuilder while another builder held descriptors
C7_Witness ==
    /\ call.op \in Recipes
    /\ prev.op = "setBuilder"
    /\ prev.b = builder
    /\ \E b \in Builders : b # builder /\ PartsOf(b) # <<>>

----------------------------------------------------------------------------
(* C8 *)

\* C8: a recipe called while no builder was ever set ends in an error and
\* changes no builder's product.
C8_NoBuilderError ==
    [][(call'.op \in Recipes /\ builder = 0) =>
        /\ thrown' = "TypeError"
        /\ heap' = heap
        /\ product' = product]_vars

\* a recipe threw while a builder with descriptors existed
C8_Witness ==
    /\ call.op \in Recipes
    /\ builder = 0
    /\ thrown = "TypeError"
    /\ \E b \in Builders : PartsOf(b) # <<>>

----------------------------------------------------------------------------
(* C9 *)

\* C9: a trigger fired before the mount callback created the Director changes
\* nothing: the fields stay empty, no builder is constructed, no error is
\* raised.
C9_SkippedBeforeMount ==
    /\ [](director = "null" => (FieldsValue = <<>> /\ product = <<>> /\ thrown = "none"))
    /\ [][(director = "null" /\ call'.op \in Triggers) =>
            /\ fields' = fields
            /\ heap' = heap
            /\ product' = product
            /\ director' = director
            /\ thrown' = "none"]_vars

\* both triggers were fired before the mount callback
C9_Witness ==
    /\ director = "null"
    /\ call.op = "showFullForm"
    /\ prev.op = "showBasicForm"

----------------------------------------------------------------------------
(* C10 *)

\* C10: once the Director exists, the displayed fields are what the last
\* trigger's recipe builds on a fresh builder, whatever triggers came before.
C10_LastTriggerOnly ==
    director = "Director" =>
        /\ call.op = "showBasicForm" => FieldsValue = Appended(RecipeSteps("buildMinimalViableProduct"))
        /\ call.op = "showFullForm" => FieldsValue = Appended(RecipeSteps("buildFullFeaturedProduct"))

\* showBasicForm right after showFullForm, and the other way round before it
C10_Witness ==
    /\ director = "Director"
    /\ call.op = "showBasicForm"
    /\ prev.op = "showFullForm"
    /\ Len(FieldsValue) = 1
    /\ \E p \in returned : Len(heap[p]) = 5

====
